---- MODULE Spec2Model ----
(***************************************************************************)
(* Model of jupyter/L1-regularization.ipynb: a notebook that draws a toy   *)
(* two-weight data loss with its L1/L2 penalty surfaces, runs gradient     *)
(* descent (train) with and without regularization, and prints/plots the   *)
(* trajectories.                                                           *)
(*                                                                         *)
(* Numbers.  The notebook computes in floating point.  Weights and         *)
(* gradients are modelled as fixed-point numbers, integers in units of     *)
(* 1/SCALE, and every product with a non-integer factor is rounded to the  *)
(* nearest unit (RoundDiv), as a floating-point product is rounded to the  *)
(* nearest representable value.  Mesh points are exact rationals in units  *)
(* of 1/MeshDen.                                                           *)
(*                                                                         *)
(* Memory.  Tensors live in a heap (address -> weight pair): W.data is an  *)
(* address, and W.data.numpy() shares the tensor's storage, so a recorded  *)
(* snapshot is an address too.  The heap and the Python lists are growable *)
(* arrays, kept in pages of PageLen entries (VPush, VAt, VSize).           *)
(***************************************************************************)
EXTENDS Integers, Sequences, FiniteSets, TLC

\* ---------------------------------------------------------------- numbers

\* fixed-point resolution of the weights: one unit is 1/SCALE
SCALE == 1000000

\* a / b rounded to the nearest integer (b > 0)
RoundDiv(a, b) == (a + b \div 2) \div b

Abs(x) == IF x < 0 THEN -x ELSE x

\* torch.sign
Sign(x) == IF x > 0 THEN 1 ELSE IF x < 0 THEN -1 ELSE 0

\* floor of the square root of n >= 0
RECURSIVE SqrtIter(_, _)
SqrtIter(n, r) ==
    LET s == (r + n \div r) \div 2
    IN  IF s >= r THEN r ELSE SqrtIter(n, s)

Sqrt(n) == IF n = 0 THEN 0 ELSE SqrtIter(n, n)

\* growable arrays: a sequence of pages, each full but the last
PageLen == 100

VSize(v) == IF v = << >> THEN 0 ELSE (Len(v) - 1) * PageLen + Len(v[Len(v)])

VAt(v, k) == v[((k - 1) \div PageLen) + 1][((k - 1) % PageLen) + 1]

VPush(v, x) ==
    IF v = << >> \/ Len(v[Len(v)]) >= PageLen
    THEN Append(v, << x >>)
    ELSE [v EXCEPT ![Len(v)] = Append(@, x)]

\* the absent gradient of a fresh Variable (W.grad is None)
None == << >>

\* ------------------------------------------------- the notebook's constants

\* lr = 0.04, alpha = 0.75 and beta = 0.75, in hundredths
lr == 4
alpha == 75
beta == 75
num_steps == 1000

\* np.mgrid[-3:9:50j, -2:6:50j]: MeshN points per axis, both ends included
MeshN == 50
MeshDen == 10 * (MeshN - 1)

\* the mesh values are computed point by point; the model keeps every
\* MeshStride-th row and column of the mesh
MeshStride == 7
MeshSample == { i \in 0 .. MeshN - 1 : i % MeshStride = 0 }
Mesh == MeshSample \X MeshSample

\* the point (xmesh, ymesh)[p], in units of 1/MeshDen
MeshPoint(p) ==
    << -3 * MeshDen + 120 * p[1], -2 * MeshDen + 80 * p[2] >>

\* initial_guess = torch.Tensor([8, 5])
initial_guess == << 8 * SCALE, 5 * SCALE >>

\* ------------------------------------------------------ losses and penalties

\* LossOpt if the redefinition of loss_fn did not take effect
LossOpt_Stale(fn, den) == 3 * den

\* w0 at the minimum of the bound loss_fn, as a fraction of den
LossOpt(fn, den) == IF fn = "min_3" THEN 3 * den ELSE (3 * den) \div 10

\* loss_fn on a numpy point P (units 1/MeshDen); value in units 1/(2 MeshDen^2)
LossValue(fn, P) ==
    (P[1] - LossOpt(fn, MeshDen)) * (P[1] - LossOpt(fn, MeshDen))
        + 5 * (P[2] - 2 * MeshDen) * (P[2] - 2 * MeshDen)

\* the numpy L1_regularization: abs(W[0]) + abs(W[1]); units 1/MeshDen
L1_regularization_np(P) == Abs(P[1]) + Abs(P[2])

\* the numpy L2_regularization: np.sqrt(W[0]**2 + W[1]**2); units 1/MeshDen
L2_regularization_np(P) == Sqrt(P[1] * P[1] + P[2] * P[2])

\* the torch L2_regularization: W.pow(2).sum(); units 1/MeshDen^2 on a mesh point
L2_regularization(P) == P[1] * P[1] + P[2] * P[2]

\* gradient of loss_fn at the weights W (units 1/SCALE)
DLoss(fn, W) ==
    << W[1] - LossOpt(fn, SCALE), 5 * (W[2] - 2 * SCALE) >>

\* DL1 for a penalty whose gradient ignores the sign of the weight
DL1_Constant(W) == << SCALE, SCALE >>

\* gradient of the torch L1_regularization, W.norm(1)
DL1(W) == << Sign(W[1]) * SCALE, Sign(W[2]) * SCALE >>

\* DL2 without the factor 2 of the square
DL2_Half(W) == << W[1], W[2] >>

\* gradient of the torch L2_regularization, W.pow(2).sum()
DL2(W) == << 2 * W[1], 2 * W[2] >>

\* gradient of loss_fn(W) + a * L1_regularization(W) + b * L2_regularization(W)
TotalGrad(fn, a, b, W) ==
    [k \in 1 .. 2 |->
        DLoss(fn, W)[k] + RoundDiv(a * DL1(W)[k], 100)
                        + RoundDiv(b * DL2(W)[k], 100)]

\* "%.3f" of a weight: thousandths
Fmt3(x) == RoundDiv(x, SCALE \div 1000)

\* ------------------------------------------------------------------- state

VARIABLES
    pc,         \* the statement the notebook (or the caller of train) is at
    loss_fn,    \* the definition loss_fn is bound to: "unbound", "min_3", "min_03"
    reg_defs,   \* the definitions L1/L2_regularization are bound to
    loss_mesh,  \* loss_fn on the mesh, as computed by the drawing cell
    l1_mesh,
    l2_mesh,
    heap,       \* tensor storages: address -> weight pair
    tvars,      \* Variables by name: [data |-> address, grad |-> None or pair]
    glist,      \* the lists of snapshots returned by train, by name
    frame,      \* the activation of train
    printed,    \* what the print statements wrote
    calls       \* number of calls of train so far

vars == << pc, loss_fn, reg_defs, loss_mesh, l1_mesh, l2_mesh,
           heap, tvars, glist, frame, printed, calls >>

NoFrame == [var |-> "", lr |-> 0, alpha |-> 0, beta |-> 0, num_steps |-> 0,
            i |-> 0, guesses |-> << >>, target |-> "", cont |-> ""]

\* ------------------------------------------------------------------- train

\* ZeroGrad for a loop that never zeroes the gradient
ZeroGrad_Skip(grad) == grad

\* lines 203-204: zero the gradient unless it is None
ZeroGrad(grad) == IF grad # None THEN << 0, 0 >> ELSE grad

\* line 208: backward() accumulates into W.grad
Backward(grad, g) ==
    IF grad = None THEN g ELSE << grad[1] + g[1], grad[2] + g[2] >>

\* Update for a step that climbs the gradient
Update_Ascent(w, rate, grad) ==
    << w[1] + RoundDiv(rate * grad[1], 100), w[2] + RoundDiv(rate * grad[2], 100) >>

\* line 211: W.data - lr * W.grad.data
Update(w, rate, grad) ==
    << w[1] - RoundDiv(rate * grad[1], 100), w[2] - RoundDiv(rate * grad[2], 100) >>

\* StoreData for an update written in place into W.data's storage
StoreData_InPlace(h, addr, w) ==
    [heap |-> [h EXCEPT ![((addr - 1) \div PageLen) + 1][((addr - 1) % PageLen) + 1] = w],
     data |-> addr]

\* line 211: W.data = <new tensor>; the result is a fresh storage
StoreData(h, addr, w) == [heap |-> VPush(h, w), data |-> VSize(h) + 1]

\* line 212: guesses.append(W.data.numpy()); the array shares W.data's storage
Snapshot(guesses, addr) == VPush(guesses, addr)

\* train(W, lr, alpha, beta, num_steps) is entered
Call(var, a, b, n, target, cont) ==
    /\ frame' = [var |-> var, lr |-> lr, alpha |-> a, beta |-> b, num_steps |-> n,
                 i |-> 0, guesses |-> << >>, target |-> target, cont |-> cont]
    /\ calls' = calls + 1
    /\ pc' = "train"

\* one iteration of the loop of train (lines 201-212)
TrainStep ==
    /\ pc = "train"
    /\ frame.i < frame.num_steps
    /\ LET v == tvars[frame.var]
           w == VAt(heap, v.data)
           g == TotalGrad(loss_fn, frame.alpha, frame.beta, w)
           grad == Backward(ZeroGrad(v.grad), g)
           st == StoreData(heap, v.data, Update(w, frame.lr, grad))
       IN  /\ heap' = st.heap
           /\ tvars' = [tvars EXCEPT ![frame.var] = [data |-> st.data, grad |-> grad]]
           /\ frame' = [frame EXCEPT !.i = @ + 1,
                                     !.guesses = Snapshot(@, st.data)]
    /\ UNCHANGED << pc, loss_fn, reg_defs, loss_mesh, l1_mesh, l2_mesh,
                    glist, printed, calls >>

\* line 213: return guesses, assigned to the caller's name
TrainReturn ==
    /\ pc = "train"
    /\ frame.i >= frame.num_steps
    /\ glist' = [glist EXCEPT ![frame.target] = frame.guesses]
    /\ pc' = frame.cont
    /\ frame' = NoFrame
    /\ UNCHANGED << loss_fn, reg_defs, loss_mesh, l1_mesh, l2_mesh,
                    heap, tvars, printed, calls >>

\* ------------------------------------------------------ the notebook's cells

\* lines 130-151: define loss_fn and the numpy penalties, compute the meshes
CellDrawSurfaces ==
    /\ pc = "cell_draw"
    /\ loss_fn' = "min_3"
    /\ reg_defs' = "numpy"
    /\ loss_mesh' = [p \in Mesh |-> LossValue("min_3", MeshPoint(p))]
    /\ l1_mesh' = [p \in Mesh |-> L1_regularization_np(MeshPoint(p))]
    /\ l2_mesh' = [p \in Mesh |-> L2_regularization_np(MeshPoint(p))]
    /\ pc' = "cell_train"
    /\ UNCHANGED << heap, tvars, glist, frame, printed, calls >>

\* lines 183-197: the three Variables, the torch penalties, the parameters
CellTrainSetup ==
    /\ pc = "cell_train"
    /\ heap' = VPush(VPush(VPush(<< >>, initial_guess), initial_guess), initial_guess)
    /\ tvars' = [W |-> [data |-> 1, grad |-> None],
                 W_l1_reg |-> [data |-> 2, grad |-> None],
                 W_l2_reg |-> [data |-> 3, grad |-> None]]
    /\ reg_defs' = "torch"
    /\ pc' = "train_unreg"
    /\ UNCHANGED << loss_fn, loss_mesh, l1_mesh, l2_mesh, glist, frame, printed, calls >>

\* line 216: guesses = train(W, lr, alpha=0, beta=0, num_steps=num_steps)
TrainUnreg ==
    /\ pc = "train_unreg"
    /\ Call("W", 0, 0, num_steps, "guesses", "train_l1")
    /\ UNCHANGED << loss_fn, reg_defs, loss_mesh, l1_mesh, l2_mesh,
                    heap, tvars, glist, printed >>

\* line 218: guesses_l1_reg = train(W_l1_reg, lr, alpha=alpha, beta=0, ...)
TrainL1 ==
    /\ pc = "train_l1"
    /\ Call("W_l1_reg", alpha, 0, num_steps, "guesses_l1_reg", "train_l2")
    /\ UNCHANGED << loss_fn, reg_defs, loss_mesh, l1_mesh, l2_mesh,
                    heap, tvars, glist, printed >>

\* line 219: guesses_l2_reg = train(W_l2_reg, lr, alpha=0, beta=beta, ...)
TrainL2 ==
    /\ pc = "train_l2"
    /\ Call("W_l2_reg", 0, beta, num_steps, "guesses_l2_reg", "cell_train_plot")
    /\ UNCHANGED << loss_fn, reg_defs, loss_mesh, l1_mesh, l2_mesh,
                    heap, tvars, glist, printed >>

\* the weights a print statement formats with %.3f
Shown(name) ==
    << name, Fmt3(VAt(heap, tvars[name].data)[1]),
             Fmt3(VAt(heap, tvars[name].data)[2]) >>

\* lines 222-270: contours, trajectories and the printed solutions
CellTrainPlot ==
    /\ pc = "cell_train_plot"
    /\ printed' = printed \o << Shown("W"), Shown("W"), Shown("W_l1_reg"),
                                Shown("W_l1_reg"), Shown("W_l2_reg") >>
    /\ pc' = "cell_sparse"
    /\ UNCHANGED << loss_fn, reg_defs, loss_mesh, l1_mesh, l2_mesh,
                    heap, tvars, glist, frame, calls >>

\* lines 289-294: redefine loss_fn, rebind W to a fresh Variable, train again
CellNearSparsity ==
    /\ pc = "cell_sparse"
    /\ loss_fn' = "min_03"
    /\ tvars' = [tvars EXCEPT !["W"] = [data |-> 1, grad |-> None]]
    /\ Call("W", alpha, 0, num_steps, "guesses_l1_reg", "cell_sparse_plot")
    /\ UNCHANGED << reg_defs, loss_mesh, l1_mesh, l2_mesh, heap, glist, printed >>

\* lines 310-321: the contour of loss_mesh and the trajectory
CellSparsityPlot ==
    /\ pc = "cell_sparse_plot"
    /\ pc' = "cell_last"
    /\ UNCHANGED << loss_fn, reg_defs, loss_mesh, l1_mesh, l2_mesh,
                    heap, tvars, glist, frame, printed, calls >>

\* guesses_l1_reg[int(0.9*num_steps):], as addresses
LastSteps(g) ==
    [k \in 1 .. VSize(g) - (9 * num_steps) \div 10 |->
        VAt(g, (9 * num_steps) \div 10 + k)]

\* lines 344-346: print w0 over the last tenth of the steps
CellLastSteps ==
    /\ pc = "cell_last"
    /\ printed' = printed \o
            [k \in 1 .. Len(LastSteps(glist["guesses_l1_reg"])) |->
                << "w0", RoundDiv(VAt(heap, LastSteps(glist["guesses_l1_reg"])[k])[1],
                                  SCALE \div 10000) >>]
    /\ pc' = "done"
    /\ UNCHANGED << loss_fn, reg_defs, loss_mesh, l1_mesh, l2_mesh,
                    heap, tvars, glist, frame, calls >>

Init ==
    /\ pc = "cell_draw"
    /\ loss_fn = "unbound"
    /\ reg_defs = "unbound"
    /\ loss_mesh = << >>
    /\ l1_mesh = << >>
    /\ l2_mesh = << >>
    /\ heap = << >>
    /\ tvars = << >>
    /\ glist = [guesses |-> << >>, guesses_l1_reg |-> << >>, guesses_l2_reg |-> << >>]
    /\ frame = NoFrame
    /\ printed = << >>
    /\ calls = 0

Next ==
    \/ CellDrawSurfaces
    \/ CellTrainSetup
    \/ TrainUnreg
    \/ TrainL1
    \/ TrainL2
    \/ TrainStep
    \/ TrainReturn
    \/ CellTrainPlot
    \/ CellNearSparsity
    \/ CellSparsityPlot
    \/ CellLastSteps

Spec == Init /\ [][Next]_vars

\* ------------------------------------------------ train, called on any inputs

\* the largest num_steps and the number of calls of train that are explored
MaxSteps == 3
MaxCalls == 2

\* starting weights: w0 on both sides of zero and at zero, w1 on both sides
StartWeights ==
    { << x * (SCALE \div 100), y * SCALE >> : x \in {-200, -1, 0, 1, 800}, y \in {-1, 5} }

\* a caller trains the same Variable W once more, with parameters of its choice
Train ==
    /\ pc = "idle"
    /\ calls < MaxCalls
    /\ \E a \in {0, alpha}, b \in {0, beta}, n \in 0 .. MaxSteps :
            Call("W", a, b, n, "guesses", "idle")
    /\ UNCHANGED << loss_fn, reg_defs, loss_mesh, l1_mesh, l2_mesh,
                    heap, tvars, glist, printed >>

InitTrain ==
    /\ pc = "idle"
    /\ loss_fn \in {"min_3", "min_03"}
    /\ reg_defs = "torch"
    /\ loss_mesh = << >>
    /\ l1_mesh = << >>
    /\ l2_mesh = << >>
    /\ \E w \in StartWeights : heap = VPush(<< >>, w)
    /\ tvars = [W |-> [data |-> 1, grad |-> None]]
    /\ glist = [guesses |-> << >>, guesses_l1_reg |-> << >>, guesses_l2_reg |-> << >>]
    /\ frame = NoFrame
    /\ printed = << >>
    /\ calls = 0

NextTrain ==
    \/ Train
    \/ TrainStep
    \/ TrainReturn

SpecTrain == InitTrain /\ [][NextTrain]_vars

\* ------------------------------------------------------------------ claims

\* the step is one iteration of the loop of train
IsStep == pc = "train" /\ pc' = "train" /\ frame'.i = frame.i + 1

\* the step is the return of train
IsReturn == pc = "train" /\ pc' # "train"

\* the weights of the Variable train is working on, before and after the step
Cur == VAt(heap, tvars[frame.var].data)
Nxt == VAt(heap', tvars'[frame.var].data)

\* the weights recorded in the k-th entry of the list g
Recorded(g, k) == VAt(heap, VAt(g, k))

\* the step belongs to the call of train that fills the list named target
StepOf(target) == IsStep /\ frame.target = target /\ loss_fn = "min_3"

\* distances that count as "at the minimum": 0.001
Tol == SCALE \div 1000

\* C1 (as claimed): in the unregularized run every step strictly reduces
\* |w0-3| and |w1-2| and stays on the same side of the minimum, and the final
\* weights print as (3.000, 2.000).
C1_StrictEveryStep ==
    [][ /\ StepOf("guesses") =>
              /\ Abs(Nxt[1] - 3 * SCALE) < Abs(Cur[1] - 3 * SCALE)
              /\ Abs(Nxt[2] - 2 * SCALE) < Abs(Cur[2] - 2 * SCALE)
              /\ Sign(Nxt[1] - 3 * SCALE) * Sign(Cur[1] - 3 * SCALE) >= 0
              /\ Sign(Nxt[2] - 2 * SCALE) * Sign(Cur[2] - 2 * SCALE) >= 0
        /\ (pc = "cell_train_plot" /\ pc' = "cell_sparse") =>
              printed'[1] = << "W", 3000, 2000 >> ]_vars

\* C1 (amended): in the unregularized run no step increases |w0-3| or |w1-2|
\* or crosses to the other side of the minimum; w0-3 is multiplied by 0.96 and
\* w1-2 by 0.8 up to one rounding unit, so each distance strictly decreases
\* while it exceeds 0.001; the final weights print as (3.000, 2.000).
C1_Converges ==
    [][ /\ StepOf("guesses") =>
              /\ Abs(Nxt[1] - 3 * SCALE) <= Abs(Cur[1] - 3 * SCALE)
              /\ Abs(Nxt[2] - 2 * SCALE) <= Abs(Cur[2] - 2 * SCALE)
              /\ Sign(Nxt[1] - 3 * SCALE) * Sign(Cur[1] - 3 * SCALE) >= 0
              /\ Sign(Nxt[2] - 2 * SCALE) * Sign(Cur[2] - 2 * SCALE) >= 0
              /\ Abs(25 * (Nxt[1] - 3 * SCALE) - 24 * (Cur[1] - 3 * SCALE)) <= 25
              /\ Abs(5 * (Nxt[2] - 2 * SCALE) - 4 * (Cur[2] - 2 * SCALE)) <= 5
              /\ Abs(Cur[1] - 3 * SCALE) > Tol =>
                    Abs(Nxt[1] - 3 * SCALE) < Abs(Cur[1] - 3 * SCALE)
              /\ Abs(Cur[2] - 2 * SCALE) > Tol =>
                    Abs(Nxt[2] - 2 * SCALE) < Abs(Cur[2] - 2 * SCALE)
        /\ (pc = "cell_train_plot" /\ pc' = "cell_sparse") =>
              printed'[1] = << "W", 3000, 2000 >> ]_vars

\* the unregularized run is over, it has stopped moving short of the exact
\* minimum, and the solution has been printed
C1_Witness ==
    /\ pc = "cell_sparse"
    /\ VSize(glist["guesses"]) = num_steps
    /\ Recorded(glist["guesses"], num_steps) = Recorded(glist["guesses"], num_steps - 1)
    /\ Recorded(glist["guesses"], num_steps) # << 3 * SCALE, 2 * SCALE >>
    /\ printed[1] = << "W", 3000, 2000 >>

\* w0 over the last tenth of the steps recorded in guesses_l1_reg
LastW0 ==
    [k \in 1 .. Len(LastSteps(glist["guesses_l1_reg"])) |->
        VAt(heap, LastSteps(glist["guesses_l1_reg"])[k])[1]]

\* C2: after the near-sparsity run, in each of the last 100 recorded steps w0
\* is not 0 and |w0| < 0.3, and w0 is positive in some of them and negative in
\* others.
C2_NearSparsity ==
    pc \in {"cell_sparse_plot", "cell_last", "done"} =>
        /\ Len(LastW0) = 100
        /\ \A k \in 1 .. Len(LastW0) :
              LastW0[k] # 0 /\ 10 * Abs(LastW0[k]) < 3 * SCALE
        /\ \E k \in 1 .. Len(LastW0) : LastW0[k] > 0
        /\ \E k \in 1 .. Len(LastW0) : LastW0[k] < 0

\* the near-sparsity run is over and its last step left w0 just off zero while
\* w1 settled at its regularized optimum
C2_Witness ==
    /\ pc = "done"
    /\ loss_fn = "min_03"
    /\ VSize(glist["guesses_l1_reg"]) = num_steps
    /\ LastW0[100] # 0
    /\ Abs(LastW0[100]) < SCALE \div 10
    /\ Fmt3(Recorded(glist["guesses_l1_reg"], num_steps)[2]) = 1850

\* C3 (as claimed): every L2 penalty the notebook computes is the sum of the
\* squared weights; for l2_mesh, at every mesh point (X, Y)/MeshDen the entry
\* v/MeshDen equals (X^2 + Y^2)/MeshDen^2.
C3_L2IsSumOfSquares ==
    pc # "cell_draw" =>
        \A p \in Mesh :
            l2_mesh[p] * MeshDen = L2_regularization(MeshPoint(p))

C5_OneSnapshotPerStep ==
    [][ /\ IsStep =>
              /\ VSize(frame'.guesses) = VSize(frame.guesses) + 1
              /\ VSize(frame'.guesses) = frame'.i
              /\ VAt(heap', VAt(frame'.guesses, frame'.i)) = Nxt
        /\ \A k \in 1 .. VSize(frame.guesses) :
              VAt(heap', VAt(frame.guesses, k)) = Recorded(frame.guesses, k)
        /\ \A k \in 1 .. VSize(glist["guesses"]) :
              VAt(heap', VAt(glist["guesses"], k)) = Recorded(glist["guesses"], k)
        /\ IsReturn =>
              /\ VSize(glist'[frame.target]) = frame.num_steps
              /\ glist'[frame.target] = frame.guesses
              /\ Nxt = Cur
              /\ frame.num_steps > 0 =>
                    VAt(heap', VAt(glist'[frame.target], frame.num_steps)) = Nxt
        /\ (pc = "idle" /\ pc' = "train") =>
              VAt(heap', tvars'["W"].data) = VAt(heap, tvars["W"].data) ]_vars

\* a call of train has returned several snapshots that differ from each other,
\* after an earlier call on the same Variable returned some too
C5_Witness ==
    /\ pc = "idle"
    /\ calls = 2
    /\ VSize(glist["guesses"]) >= 2
    /\ Recorded(glist["guesses"], 1) # Recorded(glist["guesses"], 2)
    /\ VSize(heap) > VSize(glist["guesses"]) + 1

\* the minimiser of loss_fn + beta * L2, (1.2, 20/13), is where 5 w0 = 6 and
\* 13 w1 = 20
L2Gap(w) == << Abs(5 * w[1] - 6 * SCALE), Abs(13 * w[2] - 20 * SCALE) >>

\* the minimiser of loss_fn + alpha * L1, (2.25, 1.85)
L1Gap(w) == << Abs(100 * w[1] - 225 * SCALE), Abs(100 * w[2] - 185 * SCALE) >>

\* C6: the L1 run and the L2 run of the first training cell never move away
\* from (2.25, 1.85) and (1.2, 20/13) in either coordinate; they end strictly
\* between the origin and (3, 2), where the gradient of the combined
\* objective loss_fn + alpha * L1 + beta * L2 is below 0.001, and their final
\* weights print as (2.250, 1.850) and (1.200, 1.538).
C6_RegularizedSolution ==
    [][ /\ StepOf("guesses_l1_reg") =>
              L1Gap(Nxt)[1] <= L1Gap(Cur)[1] /\ L1Gap(Nxt)[2] <= L1Gap(Cur)[2]
        /\ StepOf("guesses_l2_reg") =>
              L2Gap(Nxt)[1] <= L2Gap(Cur)[1] /\ L2Gap(Nxt)[2] <= L2Gap(Cur)[2]
        /\ (pc = "cell_train_plot" /\ pc' = "cell_sparse") =>
              /\ printed'[3] = << "W_l1_reg", 2250, 1850 >>
              /\ printed'[5] = << "W_l2_reg", 1200, 1538 >>
              /\ \A k \in 1 .. 2 :
                    /\ Abs(TotalGrad(loss_fn, alpha, 0,
                                     VAt(heap, tvars["W_l1_reg"].data))[k]) < Tol
                    /\ Abs(TotalGrad(loss_fn, 0, beta,
                                     VAt(heap, tvars["W_l2_reg"].data))[k]) < Tol
              /\ \A v \in {"W_l1_reg", "W_l2_reg"} :
                    /\ 0 < VAt(heap, tvars[v].data)[1]
                    /\ VAt(heap, tvars[v].data)[1] < 3 * SCALE
                    /\ 0 < VAt(heap, tvars[v].data)[2]
                    /\ VAt(heap, tvars[v].data)[2] < 2 * SCALE ]_vars

\* both regularized runs are over and their solutions have been printed
C6_Witness ==
    /\ pc = "cell_sparse"
    /\ VSize(glist["guesses_l1_reg"]) = num_steps
    /\ VSize(glist["guesses_l2_reg"]) = num_steps
    /\ printed[4] = << "W_l1_reg", 2250, 1850 >>
    /\ printed[5] = << "W_l2_reg", 1200, 1538 >>

\* C7 (as claimed): when the near-sparsity plot cell runs, loss_mesh is the
\* loss_fn bound at that time, evaluated on the mesh.
C7_ContourIsCurrentLoss ==
    pc = "cell_sparse_plot" =>
        loss_mesh = [p \in Mesh |-> LossValue(loss_fn, MeshPoint(p))]

\* C8: the gradient left in W.grad by a step, and used by its update, is the
\* gradient of the combined loss at the weights that entered the step, in the
\* first step (W.grad is None) as in every later step and later call.
C8_FreshGradient ==
    [][ IsStep =>
            /\ tvars'[frame.var].grad =
                    TotalGrad(loss_fn, frame.alpha, frame.beta, Cur)
            /\ Nxt = Update(Cur, frame.lr,
                            TotalGrad(loss_fn, frame.alpha, frame.beta, Cur)) ]_vars

\* a later step of a second call on the same Variable, whose gradient the
\* first call left non-zero
C8_Witness ==
    /\ pc = "train"
    /\ calls = 2
    /\ frame.i >= 2
    /\ VSize(heap) >= 4
    /\ tvars["W"].grad # None
    /\ tvars["W"].grad # << 0, 0 >>

====
